---- MODULE Spec2Model ----
(***************************************************************************)
(* Model of auto_error_checker.py: the repository walk (scan_repo), the    *)
(* per-file analysis (analyze_file), the publishing step (create_issue)    *)
(* and the exit decision of the __main__ block.                            *)
(*                                                                         *)
(* Representation.                                                         *)
(*  - A file or directory name is the sequence of its dot-separated        *)
(*    segments: "a.py" is <<"a","py">>, ".env" is <<"","env">>,            *)
(*    "node_modules" is <<"node_modules">>.                                *)
(*  - A path is the sequence of names below the root ".":                  *)
(*    "./src/.env" is << <<"src">>, <<"","env">> >>.                       *)
(*  - Text is a sequence of chunks.  A chunk is a string that stands for   *)
(*    a run of characters: "\n" a line break, " " white space, "<ff>" a    *)
(*    byte that is not valid UTF-8, any other chunk a run of non-blank     *)
(*    characters (a word, an operator, a quote).                           *)
(***************************************************************************)
EXTENDS Integers, Sequences, FiniteSets, TLC

VARIABLES
    fs,            \* the tree under ".": files in directory-listing order
    ERRORS,        \* the global findings list
    CODE_BLOCKS,   \* the global fingerprint table: digest -> path
    pc,            \* position of the process
    stack,         \* os.walk: directories still to be listed, next first
    root,          \* os.walk: the directory being iterated
    files,         \* os.walk: names of that directory not yet visited
    analysed,      \* paths handed to analyze_file by this process, in order
    issue,         \* what create_issue did
    exitCode,      \* exit status of the process, -1 while it runs
    run,           \* 1 for the first process, 2 for the second
    prev           \* ERRORS of the previous process at its exit

vars == <<fs, ERRORS, CODE_BLOCKS, pc, stack, root, files,
          analysed, issue, exitCode, run, prev>>

(***************************************************************************)
(* Bounds of the model.                                                    *)
(***************************************************************************)
MaxFiles == 2

(***************************************************************************)
(* FILTERS and LANGUAGE MAP.                                               *)
(***************************************************************************)
IGNORED_DIRS ==
    { <<"", "git">>, <<"", "github">>, <<"__pycache__">>, <<"node_modules">>,
      <<"venv">>, <<"env">>, <<"dist">>, <<"build">>, <<"", "idea">>,
      <<"", "vscode">> }

\* an extension is <<>> (none) or <<s>> for ".s"
BINARY_EXTENSIONS ==
    { <<"png">>, <<"jpg">>, <<"jpeg">>, <<"gif">>, <<"bmp">>, <<"ico">>,
      <<"svg">>, <<"pdf">>, <<"zip">>, <<"tar">>, <<"gz">>, <<"7z">>,
      <<"exe">>, <<"dll">>, <<"so">>, <<"dylib">>, <<"ttf">>, <<"otf">>,
      <<"woff">>, <<"woff2">>, <<"mp3">>, <<"mp4">>, <<"avi">>, <<"mov">> }

LANGUAGE_MAP ==
    [e \in { <<"py">>, <<"js">>, <<"ts">>, <<"dart">>, <<"java">>, <<"go">>,
             <<"c">>, <<"cpp">>, <<"h">>, <<"sh">>, <<"kt">>, <<"rs">> } |->
        CASE e = <<"py">>   -> "python"
          [] e = <<"js">>   -> "javascript"
          [] e = <<"ts">>   -> "typescript"
          [] e = <<"dart">> -> "dart"
          [] e = <<"java">> -> "java"
          [] e = <<"go">>   -> "go"
          [] e = <<"c">>    -> "c"
          [] e = <<"cpp">>  -> "cpp"
          [] e = <<"h">>    -> "c"
          [] e = <<"sh">>   -> "shell"
          [] e = <<"kt">>   -> "kotlin"
          [] e = <<"rs">>   -> "rust"]

(***************************************************************************)
(* str.lower() on the strings of the model that hold an upper-case letter. *)
(***************************************************************************)
Lower(s) ==
    CASE s = "PNG"      -> "png"
      [] s = "PY"       -> "py"
      [] s = "PASSWORD" -> "password"
      [] s = "True"     -> "true"
      [] s = "AKIA"     -> "akia"
      [] s = "K16"      -> "k16"
      [] s = "AIza"     -> "aiza"
      [] s = "B35"      -> "b35"
      [] s = "J"        -> "j"
      [] s = "eyJ"      -> "eyj"
      [] s = "Process.run"        -> "process.run"
      [] s = "Runtime.getRuntime" -> "runtime.getruntime"
      [] OTHER          -> s

LowerName(name) == [i \in 1..Len(name) |-> Lower(name[i])]

\* os.path.splitext(p)[1]: from the last dot of the last component, unless
\* only leading dots come before it
splitext(path) ==
    LET name == path[Len(path)]
    IN  IF Len(name) >= 2 /\ \E i \in 1..(Len(name) - 1) : name[i] # ""
        THEN <<name[Len(name)]>>
        ELSE <<>>

LowerPath(path) == [i \in 1..Len(path) |-> LowerName(path[i])]

LowerExt(e) == [i \in 1..Len(e) |-> Lower(e[i])]

is_binary_ext_only(path) == splitext(path) \in BINARY_EXTENSIONS

is_binary(path) == splitext(LowerPath(path)) \in BINARY_EXTENSIONS

detect_language(path) ==
    LET e == LowerExt(splitext(path))
    IN  IF e \in DOMAIN LANGUAGE_MAP THEN LANGUAGE_MAP[e] ELSE "unknown"

(***************************************************************************)
(* Regular expressions.  A pattern is its source text and a sequence of    *)
(* atoms; an atom matches chunks:                                          *)
(*   lit   one chunk equal to arg                                          *)
(*   ws0   \s*     ws1  \s+     (chunks " " and "\n")                      *)
(*   any0  .*      any1 .+      (any chunk but "\n")                       *)
(*   quote ['\"]                                                           *)
(*   dig1  \d+                                                             *)
(* Chunks standing for character classes with a count: "K16" sixteen of    *)
(* [0-9A-Z], "B35" thirty-five of [0-9A-Za-z\-_], "k24" twenty-four of     *)
(* [0-9a-zA-Z], "J" one or more of [a-zA-Z0-9_-], "80" digits.             *)
(***************************************************************************)
Lit(s) == [kind |-> "lit", arg |-> s]
Cls(k) == [kind |-> k, arg |-> ""]

API_KEY_PATTERNS ==
    << [src |-> "AKIA[0-9A-Z]{16}",         atoms |-> <<Lit("AKIA"), Lit("K16")>>],
       [src |-> "AIza[0-9A-Za-z\\-_]{35}",  atoms |-> <<Lit("AIza"), Lit("B35")>>],
       [src |-> "sk_live_[0-9a-zA-Z]{24}",  atoms |-> <<Lit("sk_live_"), Lit("k24")>>],
       [src |-> "eyJ[a-zA-Z0-9_-]+\\.eyJ",  atoms |-> <<Lit("eyJ"), Lit("J"), Lit("."), Lit("eyJ")>>] >>

PASSWORD_PATTERNS ==
    << [src |-> "password\\s*=\\s*['\\\"].+['\\\"]",
        atoms |-> <<Lit("password"), Cls("ws0"), Lit("="), Cls("ws0"),
                    Cls("quote"), Cls("any1"), Cls("quote")>>],
       [src |-> "passwd\\s*=\\s*['\\\"].+['\\\"]",
        atoms |-> <<Lit("passwd"), Cls("ws0"), Lit("="), Cls("ws0"),
                    Cls("quote"), Cls("any1"), Cls("quote")>>],
       [src |-> "pwd\\s*=\\s*['\\\"].+['\\\"]",
        atoms |-> <<Lit("pwd"), Cls("ws0"), Lit("="), Cls("ws0"),
                    Cls("quote"), Cls("any1"), Cls("quote")>>] >>

DANGEROUS_PATTERNS ==
    << [src |-> "os\\.system",          atoms |-> <<Lit("os.system")>>],
       [src |-> "subprocess",           atoms |-> <<Lit("subprocess")>>],
       [src |-> "exec\\(",              atoms |-> <<Lit("exec(")>>],
       [src |-> "eval\\(",              atoms |-> <<Lit("eval(")>>],
       [src |-> "Process\\.run",        atoms |-> <<Lit("Process.run")>>],
       [src |-> "Runtime\\.getRuntime", atoms |-> <<Lit("Runtime.getRuntime")>>] >>

BACKDOOR_PATTERNS ==
    << [src |-> "__import__",  atoms |-> <<Lit("__import__")>>],
       [src |-> "compile\\(",  atoms |-> <<Lit("compile(")>>],
       [src |-> "globals\\(",  atoms |-> <<Lit("globals(")>>],
       [src |-> "base64",      atoms |-> <<Lit("base64")>>] >>

OPEN_ENDPOINT_PATTERNS ==
    << [src |-> "0\\.0\\.0\\.0", atoms |-> <<Lit("0.0.0.0")>>],
       [src |-> "app\\.run\\(.*debug\\s*=\\s*True",
        atoms |-> <<Lit("app.run("), Cls("any0"), Lit("debug"), Cls("ws0"),
                    Lit("="), Cls("ws0"), Lit("True")>>],
       [src |-> "listen\\(\\d+,\\s*['\\\"]0\\.0\\.0\\.0",
        atoms |-> <<Lit("listen("), Cls("dig1"), Lit(","), Cls("ws0"),
                    Cls("quote"), Lit("0.0.0.0")>>] >>

BROKEN_LOOP_PATTERNS ==
    << [src |-> "while\\s*\\(\\s*true\\s*\\)",
        atoms |-> <<Lit("while"), Cls("ws0"), Lit("("), Cls("ws0"),
                    Lit("true"), Cls("ws0"), Lit(")")>>],
       [src |-> "while\\s+True\\s*:",
        atoms |-> <<Lit("while"), Cls("ws1"), Lit("True"), Cls("ws0"), Lit(":")>>],
       [src |-> "for\\s*\\(;;\\)",
        atoms |-> <<Lit("for"), Cls("ws0"), Lit("(;;)")>>] >>

\* chunk c is in the class of atom a; ic is re.IGNORECASE
InClass(a, c, ic) ==
    CASE a.kind = "lit"   -> IF ic THEN Lower(c) = Lower(a.arg) ELSE c = a.arg
      [] a.kind \in {"ws0", "ws1"}   -> c \in {" ", "\n"}
      [] a.kind \in {"any0", "any1"} -> c # "\n"
      [] a.kind = "quote" -> c \in {"'", "\""}
      [] a.kind = "dig1"  -> c \in {"80", "8080"}

\* atoms k.. of the pattern match a prefix of text[i..]
RECURSIVE MatchAt(_, _, _, _, _)
MatchAt(atoms, k, text, i, ic) ==
    IF k > Len(atoms) THEN TRUE
    ELSE LET a    == atoms[k]
             here == i <= Len(text) /\ InClass(a, text[i], ic)
         IN  CASE a.kind \in {"ws0", "any0"} ->
                    \/ MatchAt(atoms, k + 1, text, i, ic)
                    \/ here /\ MatchAt(atoms, k, text, i + 1, ic)
               [] a.kind \in {"ws1", "any1", "dig1"} ->
                    here /\ (\/ MatchAt(atoms, k + 1, text, i + 1, ic)
                             \/ MatchAt(atoms, k, text, i + 1, ic))
               [] OTHER ->
                    here /\ MatchAt(atoms, k + 1, text, i + 1, ic)

\* re.search(p, text, flags) is not None
re_search(p, text, ic) ==
    \E i \in 1..(Len(text) + 1) : MatchAt(p.atoms, 1, text, i, ic)

(***************************************************************************)
(* Text.                                                                   *)
(***************************************************************************)
\* bytes.decode("utf-8", errors="ignore"): invalid bytes are dropped
Decode(raw) == SelectSeq(raw, LAMBDA c : c # "<ff>")

\* str.encode("utf-8", errors="ignore"): lone surrogates are dropped
Encode(text) == SelectSeq(text, LAMBDA c : c # "<surrogate>")

\* str.splitlines()
RECURSIVE splitlines(_)
splitlines(text) ==
    IF text = <<>> THEN <<>>
    ELSE LET brk == { i \in 1..Len(text) : text[i] = "\n" }
         IN  IF brk = {} THEN <<text>>
             ELSE LET n == CHOOSE i \in brk : \A j \in brk : i <= j
                  IN  <<SubSeq(text, 1, n - 1)>> \o
                      splitlines(SubSeq(text, n + 1, Len(text)))

\* str.strip()
RECURSIVE strip(_)
strip(l) ==
    IF l = <<>> THEN l
    ELSE IF l[1] = " " THEN strip(Tail(l))
    ELSE IF l[Len(l)] = " " THEN strip(SubSeq(l, 1, Len(l) - 1))
    ELSE l

\* "\n".join(ls)
RECURSIVE join(_)
join(ls) ==
    IF ls = <<>> THEN <<>>
    ELSE IF Len(ls) = 1 THEN ls[1]
    ELSE ls[1] \o <<"\n">> \o join(Tail(ls))

\* hashlib.sha256(...).hexdigest(): a digest with no collisions
sha256(bytes) == [sha256 |-> bytes]

hash_block(text) == sha256(Encode(text))

(***************************************************************************)
(* Files.  A file is its path, the name of its bytes (FileData), whether   *)
(* open() succeeds on it, and what running py_compile on it does:          *)
(* "exit0", "exit1" (the compiler ran and rejected it) or "raise"          *)
(* (subprocess.run could not start the interpreter).                       *)
(***************************************************************************)
F12 ==
    << "f01", "f02", "f03", "f04", "f05", "f06", "f07", "f08", "f09", "f10",
       "f11", "f12" >>

G40 ==
    << "g01", "g02", "g03", "g04", "g05", "g06", "g07", "g08", "g09", "g10",
       "g11", "g12", "g13", "g14", "g15", "g16", "g17", "g18", "g19", "g20",
       "g21", "g22", "g23", "g24", "g25", "g26", "g27", "g28", "g29", "g30",
       "g31", "g32", "g33", "g34", "g35", "g36", "g37", "g38", "g39", "g40" >>

\* one word per line
RECURSIVE OnePerLine(_)
OnePerLine(ws) ==
    IF ws = <<>> THEN <<>> ELSE <<ws[1], "\n">> \o OnePerLine(Tail(ws))

\* one word per line, each indented, followed by a blank line and by a byte
\* that is not valid UTF-8
RECURSIVE Spaced(_)
Spaced(ws) ==
    IF ws = <<>> THEN <<>>
    ELSE <<" ", ws[1], " ", "<ff>", "\n", " ", "\n">> \o Spaced(Tail(ws))

DataNames ==
    {"clean", "multi", "split", "f11", "f12", "f12b", "g41a", "g41b"}

\* the bytes of a file, by name
FileData(d) ==
    CASE d = "clean" -> <<"x", "\n">>
      [] d = "multi" -> << "eval(", "x", "\n",
                           "PASSWORD", " ", "=", " ", "\"", "s", "\"", "\n",
                           "eval(", "\n",
                           "os.system", " ", "subprocess", "\n",
                           "key", "=", "AKIA", "K16", "\n" >>
      [] d = "split" -> << "while", "\n", "True", ":", "\n" >>
      [] d = "f11"   -> Spaced(SubSeq(F12, 1, 11))
      [] d = "f12"   -> OnePerLine(F12)
      [] d = "f12b"  -> Spaced(F12)
      [] d = "g41a"  -> OnePerLine(G40) \o <<"h1", "\n">>
      [] d = "g41b"  -> OnePerLine(G40) \o <<"h2", "\n">>

pA      == << <<"a", "py">> >>
pB      == << <<"b", "js">> >>
pG      == << <<"src">>, <<"g", "PY">> >>
pImg    == << <<"img", "PNG">> >>
pEnv    == << <<"", "env">> >>
pCfg    == << <<"", "config">>, <<"c", "py">> >>
pSrcEnv == << <<"src">>, <<"", "env">> >>
pCache  == << <<"src">>, <<"", "cache">>, <<"d", "py">> >>
pNm     == << <<"node_modules">>, <<"e", "js">> >>
pNested == << <<"src">>, <<"node_modules">>, <<"pkg">>, <<"f", "py">> >>

File(p, d, r, c) == [path |-> p, data |-> d, readable |-> r, pyc |-> c]

Universe ==
    { File(pA, d, TRUE, "exit0") : d \in DataNames }
    \cup { File(pA, "clean", TRUE, c) : c \in {"exit1", "raise"} }
    \cup { File(pA, "multi", FALSE, "exit1") }
    \cup { File(pB, d, TRUE, "exit0") : d \in {"multi", "f12", "f12b", "g41a", "g41b"} }
    \cup { File(pB, "f12", FALSE, "exit0") }
    \cup { File(pG, "f12", TRUE, c) : c \in {"exit0", "exit1"} }
    \cup { File(pImg, d, TRUE, "exit0") : d \in {"multi", "f12"} }
    \cup { File(pEnv, "multi", TRUE, "exit0") }
    \cup { File(pCfg, "f12", TRUE, "exit1") }
    \cup { File(pSrcEnv, "multi", TRUE, "exit0") }
    \cup { File(pCache, "f12", TRUE, "exit0") }
    \cup { File(pNm, "multi", TRUE, "exit0") }
    \cup { File(pNested, "f12", TRUE, "raise") }

\* trees of at most MaxFiles files, no two at the same path
Trees ==
    { t \in UNION { [1..n -> Universe] : n \in 0..MaxFiles } :
        \A i, j \in 1..Len(t) : t[i].path = t[j].path => i = j }

\* the file of the tree at a path
FileAt(path) == fs[CHOOSE i \in 1..Len(fs) : fs[i].path = path]

(***************************************************************************)
(* analyze_file.                                                           *)
(***************************************************************************)
MinDupLines == 12
BlockLines == 40

\* the message handed to record(); other is the origin path of a
\* duplication message and <<>> in every other message
Finding(language, kind, pat, path, other) ==
    [lang |-> language, kind |-> kind, pat |-> pat, path |-> path,
     other |-> other]

\* the pattern is searched for line by line
Matches_by_line(p, content, ic) ==
    LET ls == splitlines(content)
    IN  \E i \in 1..Len(ls) : re_search(p, ls[i], ic)

\* the test of each rule loop: re.search(p, content[, re.IGNORECASE])
Matches(p, content, ic) == re_search(p, content, ic)

Hits(pats, content, ic) == SelectSeq(pats, LAMBDA p : Matches(p, content, ic))

\* the six rule loops, in order: one message for each pattern that matches
PatternFindings(language, path, content) ==
    LET api  == Hits(API_KEY_PATTERNS, content, FALSE)
        pwd  == Hits(PASSWORD_PATTERNS, content, TRUE)
        dng  == Hits(DANGEROUS_PATTERNS, content, FALSE)
        bck  == Hits(BACKDOOR_PATTERNS, content, FALSE)
        opn  == Hits(OPEN_ENDPOINT_PATTERNS, content, FALSE)
        loop == Hits(BROKEN_LOOP_PATTERNS, content, FALSE)
    IN  [i \in 1..Len(api) |->
            Finding(language, "Hard-coded API key", "", path, <<>>)]
        \o [i \in 1..Len(pwd) |->
            Finding(language, "Plaintext password", "", path, <<>>)]
        \o [i \in 1..Len(dng) |->
            Finding(language, "Dangerous code", dng[i].src, path, <<>>)]
        \o [i \in 1..Len(bck) |->
            Finding(language, "Possible backdoor pattern", bck[i].src, path, <<>>)]
        \o [i \in 1..Len(opn) |->
            Finding(language, "Open / insecure endpoint", "", path, <<>>)]
        \o [i \in 1..Len(loop) |->
            Finding(language, "Potential infinite loop", "", path, <<>>)]

\* [l.strip() for l in content.splitlines() if l.strip()]
NonBlankLines(content) ==
    LET ls == splitlines(content)
        st == [i \in 1..Len(ls) |-> strip(ls[i])]
    IN  SelectSeq(st, LAMBDA l : l # <<>>)

\* "\n".join(lines[:40])
Block(lines) ==
    join(SubSeq(lines, 1, IF Len(lines) < BlockLines THEN Len(lines) ELSE BlockLines))

DupEligible_above(lines) == Len(lines) > MinDupLines

\* if len(lines) >= 12
DupEligible(lines) == Len(lines) >= MinDupLines

DupMessage_swapped(language, path, origin) ==
    Finding(language, "Code duplication", "", origin, path)

\* record(f"[{language}] Code duplication: {path} <-> {CODE_BLOCKS[h]}")
DupMessage(language, path, origin) ==
    Finding(language, "Code duplication", "", path, origin)

IndexAfter_last_wins(blocks, h, path) ==
    [k \in DOMAIN blocks \cup {h} |-> IF k = h THEN path ELSE blocks[k]]

\* the table after a file with digest h: written only when h is not in it
IndexAfter(blocks, h, path) ==
    IF h \in DOMAIN blocks THEN blocks
    ELSE [k \in DOMAIN blocks \cup {h} |-> IF k = h THEN path ELSE blocks[k]]

\* the duplication step: the messages it records
DupFindings(language, path, content, blocks) ==
    LET lines == NonBlankLines(content)
        h     == hash_block(Block(lines))
    IN  IF DupEligible(lines) /\ h \in DOMAIN blocks
        THEN <<DupMessage(language, path, blocks[h])>>
        ELSE <<>>

\* the duplication step: the table it leaves
DupIndex(path, content, blocks) ==
    LET lines == NonBlankLines(content)
    IN  IF DupEligible(lines)
        THEN IndexAfter(blocks, hash_block(Block(lines)), path)
        ELSE blocks

\* python_syntax_check: the messages it records, given what running
\* py_compile did; the exit status of a compiler that ran is not read
python_syntax_check(path, outcome) ==
    IF outcome = "raise"
    THEN <<Finding("python", "Syntax error", "", path, <<>>)>>
    ELSE <<>>

analyze_file(path) ==
    LET f        == FileAt(path)
        content  == Decode(FileData(f.data))
        language == detect_language(path)
    IN  IF is_binary(path) \/ ~f.readable
        THEN UNCHANGED <<ERRORS, CODE_BLOCKS>>
        ELSE /\ ERRORS' = ERRORS
                    \o PatternFindings(language, path, content)
                    \o DupFindings(language, path, content, CODE_BLOCKS)
                    \o (IF language = "python"
                        THEN python_syntax_check(path, f.pyc)
                        ELSE <<>>)
             /\ CODE_BLOCKS' = DupIndex(path, content, CODE_BLOCKS)

(***************************************************************************)
(* scan_repo: os.walk(".") top-down, one directory listing or one file per *)
(* step.  A directory path <<>> is the root ".".                           *)
(***************************************************************************)
\* the files of a directory, as os.walk lists them
ListFiles(dir) ==
    LET here == SelectSeq(fs, LAMBDA f : Len(f.path) = Len(dir) + 1
                                         /\ SubSeq(f.path, 1, Len(dir)) = dir)
    IN  [i \in 1..Len(here) |-> here[i].path[Len(dir) + 1]]

\* the subdirectories of a directory, as os.walk lists them
RECURSIVE SubdirsFrom(_, _, _)
SubdirsFrom(dir, i, seen) ==
    IF i > Len(fs) THEN <<>>
    ELSE LET p == fs[i].path
             below == Len(p) > Len(dir) + 1 /\ SubSeq(p, 1, Len(dir)) = dir
         IN  IF below /\ p[Len(dir) + 1] \notin seen
             THEN <<p[Len(dir) + 1]>>
                  \o SubdirsFrom(dir, i + 1, seen \cup {p[Len(dir) + 1]})
             ELSE SubdirsFrom(dir, i + 1, seen)

ListDirs(dir) == SubdirsFrom(dir, 1, {})

PruneDirs_root_only(dir, dirs) ==
    IF dir = <<>> THEN SelectSeq(dirs, LAMBDA d : d \notin IGNORED_DIRS) ELSE dirs

\* dirs[:] = [d for d in dirs if d not in IGNORED_DIRS]
PruneDirs(dir, dirs) == SelectSeq(dirs, LAMBDA d : d \notin IGNORED_DIRS)

\* path.startswith("./.")
StartsWithDotSlashDot(path) == Len(path[1]) >= 2 /\ path[1][1] = ""

\* os.walk yields the next directory; the loop body prunes its dirs
WalkDir ==
    /\ pc = "walk" /\ files = <<>> /\ stack # <<>>
    /\ LET dir  == Head(stack)
           dirs == PruneDirs(dir, ListDirs(dir))
       IN  /\ root' = dir
           /\ files' = ListFiles(dir)
           /\ stack' = [i \in 1..Len(dirs) |-> dir \o <<dirs[i]>>] \o Tail(stack)
    /\ UNCHANGED <<fs, ERRORS, CODE_BLOCKS, pc, analysed,
                   issue, exitCode, run, prev>>

\* one iteration of "for name in files"
VisitFile ==
    /\ pc = "walk" /\ files # <<>>
    /\ LET path == root \o <<Head(files)>>
       IN  IF StartsWithDotSlashDot(path)
           THEN UNCHANGED <<ERRORS, CODE_BLOCKS, analysed>>
           ELSE /\ analyze_file(path)
                /\ analysed' = Append(analysed, path)
    /\ files' = Tail(files)
    /\ UNCHANGED <<fs, pc, stack, root, issue, exitCode,
                   run, prev>>

(***************************************************************************)
(* __main__ and create_issue.                                              *)
(***************************************************************************)
ExitStatus_by_issue(errors, published) ==
    IF errors # <<>> /\ published # "skipped" THEN 1 ELSE 0

\* the status the process ends with: sys.exit(1) after "if ERRORS", or the
\* end of the script
ExitStatus(errors, published) == IF errors # <<>> THEN 1 ELSE 0

\* scan_repo() has returned: "if ERRORS"
Main ==
    /\ pc = "walk" /\ files = <<>> /\ stack = <<>>
    /\ IF ERRORS # <<>>
       THEN pc' = "create_issue" /\ UNCHANGED exitCode
       ELSE pc' = "exited" /\ exitCode' = ExitStatus(ERRORS, issue)
    /\ UNCHANGED <<fs, ERRORS, CODE_BLOCKS, stack, root,
                   files, analysed, issue, run, prev>>

\* create_issue(body): skipped without the environment, else the request is
\* sent and an exception of urlopen is caught and printed.  GITHUB_TOKEN and
\* REPO are what os.getenv gave as the module was loaded (whether each is
\* set); nothing reads them before this point, so they are drawn here.
create_issue ==
    /\ pc = "create_issue"
    /\ \E GITHUB_TOKEN, REPO \in BOOLEAN :
          IF ~GITHUB_TOKEN \/ ~REPO
          THEN issue' = "skipped"
          ELSE issue' \in {"created", "failed"}
    /\ pc' = "sys.exit"
    /\ UNCHANGED <<fs, ERRORS, CODE_BLOCKS, stack, root,
                   files, analysed, exitCode, run, prev>>

\* print("Errors found. Issue created."); sys.exit(1)
SysExit ==
    /\ pc = "sys.exit"
    /\ pc' = "exited"
    /\ exitCode' = ExitStatus(ERRORS, issue)
    /\ UNCHANGED <<fs, ERRORS, CODE_BLOCKS, stack, root,
                   files, analysed, issue, run, prev>>

\* ERRORS = [] as the module is loaded
LoadedERRORS == <<>>

\* CODE_BLOCKS = {} as the module is loaded
LoadedCODE_BLOCKS == [h \in {} |-> <<>>]

\* scan_repo() is called a second time by the process that called it first
RunAgain_same_process ==
    /\ pc = "exited" /\ run = 1
    /\ run' = 2
    /\ prev' = ERRORS
    /\ pc' = "walk"
    /\ stack' = << <<>> >>
    /\ root' = <<>>
    /\ files' = <<>>
    /\ analysed' = <<>>
    /\ issue' = "none"
    /\ exitCode' = -1
    /\ UNCHANGED <<fs, ERRORS, CODE_BLOCKS>>

\* the script is run a second time on the same tree: a new process loads
\* the module
RunAgain ==
    /\ pc = "exited" /\ run = 1
    /\ run' = 2
    /\ prev' = ERRORS
    /\ ERRORS' = LoadedERRORS
    /\ CODE_BLOCKS' = LoadedCODE_BLOCKS
    /\ pc' = "walk"
    /\ stack' = << <<>> >>
    /\ root' = <<>>
    /\ files' = <<>>
    /\ analysed' = <<>>
    /\ issue' = "none"
    /\ exitCode' = -1
    /\ UNCHANGED fs

Init ==
    /\ fs \in Trees
    /\ ERRORS = LoadedERRORS
    /\ CODE_BLOCKS = LoadedCODE_BLOCKS
    /\ pc = "walk"
    /\ stack = << <<>> >>
    /\ root = <<>>
    /\ files = <<>>
    /\ analysed = <<>>
    /\ issue = "none"
    /\ exitCode = -1
    /\ run = 1
    /\ prev = <<>>

Next ==
    \/ WalkDir
    \/ VisitFile
    \/ Main
    \/ create_issue
    \/ SysExit
    \/ RunAgain

Spec == Init /\ [][Next]_vars

(***************************************************************************)
(* Properties.                                                             *)
(***************************************************************************)
\* number of recorded messages that satisfy P
CountE(P(_)) == Cardinality({ n \in 1..Len(ERRORS) : P(ERRORS[n]) })

\* the lower-cased extension of the path is a binary one
BinaryPath(p) == LowerExt(splitext(p)) \in BINARY_EXTENSIONS

\* analyze_file got past its two early returns on p
Opened(p) == FileAt(p).readable /\ ~BinaryPath(p)

\* the decoded content of each data, its lines and its stripped non-blank
\* lines
Contents == [d \in DataNames |-> Decode(FileData(d))]

RawLines == [d \in DataNames |-> splitlines(Contents[d])]

Stripped == [d \in DataNames |-> NonBlankLines(Contents[d])]

\* the rule sets with the label of their message and their flag
Categories ==
    << [kind |-> "Hard-coded API key",        pats |-> API_KEY_PATTERNS,       ic |-> FALSE],
       [kind |-> "Plaintext password",        pats |-> PASSWORD_PATTERNS,      ic |-> TRUE],
       [kind |-> "Dangerous code",            pats |-> DANGEROUS_PATTERNS,     ic |-> FALSE],
       [kind |-> "Possible backdoor pattern", pats |-> BACKDOOR_PATTERNS,      ic |-> FALSE],
       [kind |-> "Open / insecure endpoint",  pats |-> OPEN_ENDPOINT_PATTERNS, ic |-> FALSE],
       [kind |-> "Potential infinite loop",   pats |-> BROKEN_LOOP_PATTERNS,   ic |-> FALSE] >>

IsDup(e) == e.kind = "Code duplication"

\* some proper ancestor directory of p is in the ignore set
UnderIgnored(p) == \E i \in 1..(Len(p) - 1) : p[i] \in IGNORED_DIRS

BeginsWithDot(name) == Len(name) >= 2 /\ name[1] = ""

\* the first BlockLines stripped non-blank lines of p
Prefix40(p) ==
    LET ls == Stripped[FileAt(p).data]
    IN  SubSeq(ls, 1, IF Len(ls) < BlockLines THEN Len(ls) ELSE BlockLines)

\* p was opened and has at least MinDupLines non-blank lines
Fingerprinted(p) == Opened(p) /\ Len(Stripped[FileAt(p).data]) >= MinDupLines

\* the patterns of each rule set that match the content of each data
FileHits ==
    [d \in DataNames |->
        [c \in 1..Len(Categories) |->
            { j \in 1..Len(Categories[c].pats) :
                re_search(Categories[c].pats[j], Contents[d], Categories[c].ic) }]]

\* the (line, pattern) pairs of each rule set where the pattern matches the
\* line, for each data
LineHits ==
    [d \in DataNames |->
        [c \in 1..Len(Categories) |->
            { lp \in (1..Len(RawLines[d])) \X (1..Len(Categories[c].pats)) :
                re_search(Categories[c].pats[lp[2]], RawLines[d][lp[1]],
                          Categories[c].ic) }]]

C2_OneDuplicate ==
    pc # "walk" =>
    \A i, j \in 1..Len(analysed) :
        ( /\ i < j
          /\ Fingerprinted(analysed[i]) /\ Fingerprinted(analysed[j])
          /\ Prefix40(analysed[i]) = Prefix40(analysed[j])
          /\ \A k \in 1..Len(analysed) :
                (k \notin {i, j} /\ Fingerprinted(analysed[k]))
                => Prefix40(analysed[k]) # Prefix40(analysed[i]) )
        => /\ CountE(LAMBDA e : IsDup(e)
                        /\ (e.path \in {analysed[i], analysed[j]}
                            \/ e.other \in {analysed[i], analysed[j]})) = 1
           /\ CountE(LAMBDA e : IsDup(e) /\ e.path = analysed[j]
                                 /\ e.other = analysed[i]) = 1

\* b.js was listed before a.py, the two differ only after line 40, and the
\* scan recorded a.py as the duplicate of b.js
C2_Witness ==
    /\ pc = "exited"
    /\ analysed = <<pB, pA>>
    /\ FileAt(pB).data = "g41b" /\ FileAt(pA).data = "g41a"
    /\ CountE(IsDup) = 1
    /\ \E n \in 1..Len(ERRORS) : IsDup(ERRORS[n]) /\ ERRORS[n].path = pA
                                  /\ ERRORS[n].other = pB

\* C3: a process that has ended has status 0 exactly when its findings list
\* is empty and status 1 otherwise, whatever became of the issue.
C3_ExitCode ==
    pc = "exited" =>
        /\ exitCode \in {0, 1}
        /\ (exitCode = 0) <=> (ERRORS = <<>>)
        /\ issue \in {"none", "skipped", "created", "failed"}

\* publishing failed and the process ended with status 1
C3_Witness == pc = "exited" /\ issue = "failed" /\ exitCode = 1 /\ ERRORS # <<>>

\* C4: no message names a path with a binary extension, as the file or as
\* the origin of a duplicate, and no table entry holds one.
C4_BinarySilent ==
    /\ \A n \in 1..Len(ERRORS) :
         ~BinaryPath(ERRORS[n].path)
         /\ (ERRORS[n].other # <<>> => ~BinaryPath(ERRORS[n].other))
    /\ \A h \in DOMAIN CODE_BLOCKS : ~BinaryPath(CODE_BLOCKS[h])

\* img.PNG, whose content matches several rules, was handed to analyze_file
\* after another file, and the scan is over
C4_Witness ==
    /\ pc = "exited"
    /\ \E k \in 2..Len(analysed) :
         analysed[k] = pImg /\ FileAt(pImg).data = "multi"

\* C5, as claimed: for a python file that was opened, a syntax message is
\* recorded when py_compile ran and exited non-zero, and none is recorded
\* when the validator could not be started.
C5_SyntaxFinding ==
    \A k \in 1..Len(analysed) :
        LET p == analysed[k]
            n == CountE(LAMBDA e : e.path = p /\ e.kind = "Syntax error")
        IN  (Opened(p) /\ LowerExt(splitext(p)) = <<"py">>) =>
            /\ FileAt(p).pyc = "exit1" => n = 1
            /\ FileAt(p).pyc = "raise" => n = 0

\* C6: no file beneath an ignored directory, at any depth, is handed to
\* analyze_file, is named by a message or is held by the table.
C6_PrunedSilent ==
    /\ \A k \in 1..Len(analysed) : ~UnderIgnored(analysed[k])
    /\ \A n \in 1..Len(ERRORS) :
         ~UnderIgnored(ERRORS[n].path) /\ ~UnderIgnored(ERRORS[n].other)
    /\ \A h \in DOMAIN CODE_BLOCKS : ~UnderIgnored(CODE_BLOCKS[h])

\* the tree holds a file three levels down below src/node_modules, another
\* file was analysed and the scan is over
C6_Witness ==
    /\ pc = "exited"
    /\ \E i \in 1..Len(fs) : fs[i].path = pNested
    /\ analysed # <<>>

\* C7: a file that was opened and has fewer than MinDupLines non-blank lines
\* has no duplication message and no table entry; one with exactly
\* MinDupLines is in the table or has a duplication message.
C7_ShortFiles ==
    \A k \in 1..Len(analysed) :
        LET p == analysed[k]
            n == Len(Stripped[FileAt(p).data])
        IN  Opened(p) =>
            /\ n < MinDupLines =>
                 /\ CountE(LAMBDA e : IsDup(e) /\ e.path = p) = 0
                 /\ \A h \in DOMAIN CODE_BLOCKS : CODE_BLOCKS[h] # p
            /\ n = MinDupLines =>
                 \/ \E h \in DOMAIN CODE_BLOCKS : CODE_BLOCKS[h] = p
                 \/ CountE(LAMBDA e : IsDup(e) /\ e.path = p) = 1

\* a file of 12 non-blank lines was analysed and then one of 11 (of more
\* than 12 lines with the blank ones), which begins with the same 11
C7_Witness ==
    /\ Len(analysed) = 2
    /\ FileAt(analysed[1]).data = "f12b" /\ Opened(analysed[1])
    /\ FileAt(analysed[2]).data = "f11" /\ Opened(analysed[2])
    /\ Len(Stripped["f11"]) = MinDupLines - 1
    /\ Len(RawLines["f11"]) > MinDupLines
    /\ DOMAIN CODE_BLOCKS # {}

C9_HiddenSkipped ==
    \A k \in 1..Len(analysed) :
        LET p == analysed[k]
        IN  /\ ~BeginsWithDot(p[Len(p)])
            /\ Len(p) >= 2 => ~BeginsWithDot(p[Len(p) - 1])

\* C10: within a run a table entry is never removed or changed, and every
\* duplication message names as origin a file analysed strictly before the
\* file it is about, the one the table holds for that file's digest.
C10_FirstWins ==
    /\ [](\A n \in 1..Len(ERRORS) :
            IsDup(ERRORS[n]) =>
              /\ \E i, j \in 1..Len(analysed) :
                    i < j /\ analysed[i] = ERRORS[n].other
                          /\ analysed[j] = ERRORS[n].path
              /\ LET h == sha256(join(Prefix40(ERRORS[n].path)))
                 IN  h \in DOMAIN CODE_BLOCKS /\ CODE_BLOCKS[h] = ERRORS[n].other)
    /\ [][run' = run =>
            \A h \in DOMAIN CODE_BLOCKS :
                h \in DOMAIN CODE_BLOCKS' /\ CODE_BLOCKS'[h] = CODE_BLOCKS[h]]_vars

\* a duplicate was recorded and the table still holds its origin
C10_Witness ==
    /\ Len(analysed) >= 2
    /\ \E n \in 1..Len(ERRORS) :
         IsDup(ERRORS[n]) /\ ERRORS[n].other = analysed[1]
         /\ \E h \in DOMAIN CODE_BLOCKS : CODE_BLOCKS[h] = analysed[1]

====
